---- MODULE Spec2Model ----
(***************************************************************************)
(* A model of splitmp3.py: the silence-marker parser of                    *)
(* find_silent_periods, the greedy segment planner and the write loop of   *)
(* segment_audio, and the fallbacks of get_audio_duration and              *)
(* create_segment.                                                         *)
(*                                                                         *)
(* Times are whole seconds.  The threshold test                            *)
(*     silence["end"] - segment_start >= target_segment_length * 0.8       *)
(* is modelled as 5 * (end - segment_start) >= 4 * target, which agrees    *)
(* with the floating-point comparison for every whole-second value used    *)
(* here.  The external engine (ffmpeg / ffprobe) is the environment: each  *)
(* invocation either exits zero or nonzero, chosen independently.          *)
(***************************************************************************)
EXTENDS Integers, Sequences, FiniteSets

VARIABLES
    pc,               \* position in segment_audio / find_silent_periods
    duration,         \* the duration ffprobe reports for the input when it succeeds
    target,           \* target_segment_length
    sentinel,         \* TRUE iff find_silent_periods returned None
    silence_periods,  \* the list find_silent_periods builds / returns
    idx,              \* index of the silence the planning loop looks at next
    segment_start,    \* the planner's cursor
    segments,         \* the segment plan, a sequence of <<start, end>>
    num_segments,     \* len(segments), line 170
    num_digits,       \* len(str(num_segments)), line 171
    segment_num,      \* the enumerate counter of the write loop
    written,          \* one record per create_segment invocation, in order
    calls,            \* the external invocations made so far, in order
    probes,           \* the values get_audio_duration returned, in order
    lines,            \* stderr_output.splitlines() of the detection run
    pos,              \* index of the stderr line the parser looks at next
    start_time        \* the parser's pending silence start, or None

vars == <<pc, duration, target, sentinel, silence_periods, idx, segment_start,
          segments, num_segments, num_digits, segment_num, written, calls,
          probes, lines, pos, start_time>>

planVars == <<idx, segment_start, segments>>
writeVars == <<num_segments, num_digits, segment_num, written>>
parseVars == <<lines, pos, start_time>>

----------------------------------------------------------------------------
(* Bounds *)

MaxDuration == 5     \* longest input, in seconds
MaxTarget == 2       \* largest target_segment_length
MaxSilences == 3     \* most silences the detector reports in the pipeline
MaxSegments == 11    \* longest plan handed to the write loop on its own
MaxLines == 4        \* most stderr lines the parser is fed
MaxStamp == 2        \* largest timestamp in a silence marker

None == -1           \* Python's None where a time is expected

----------------------------------------------------------------------------
(* Pure helpers *)

Last(s) == s[Len(s)]

\* str(n) for n >= 0, as a sequence of decimal digits
RECURSIVE Str(_)
Str(n) == IF n < 10 THEN <<n>> ELSE Append(Str(n \div 10), n % 10)

\* variant: the index is not padded at all
NoPad(s, w) == s

\* the "0{w}d" part of the format spec: left-pad with zeros to width w,
\* never truncating
RECURSIVE ZeroPad(_, _)
ZeroPad(s, w) == IF Len(s) >= w THEN s ELSE ZeroPad(<<0>> \o s, w)

\* os.path.join(output_subdir, f"{segment_num:0{num_digits}d}.mp3")
SegmentFile(n, w) ==
    [dir |-> "output_subdir", stem |-> ZeroPad(Str(n), w), ext |-> ".mp3"]

\* os.path.join(output_subdir, input_file, ".mp3"): a file called ".mp3"
\* below a directory named after the input path
WholeFileName ==
    [dir |-> "output_subdir/input_file", stem |-> <<>>, ext |-> ".mp3"]

\* get_audio_duration: float(stdout) on exit 0, the fallback 0 otherwise
get_audio_duration(ok) == IF ok THEN duration ELSE 0

\* create_segment: one engine run, True on exit 0, False on
\* CalledProcessError; end_time is never None at the two call sites
create_segment(output_file, start, end, ok) ==
    [file |-> output_file, start |-> start, end |-> end, ok |-> ok]

\* variant: a cut is accepted from 40% of the target length on
IsCutLoose(silence, cursor, t) == 5 * (silence.end - cursor) >= 2 * t

\* variant: the threshold is dropped, every silence past the cursor cuts
IsCutAlways(silence, cursor, t) == silence.end - cursor >= 0

\* the cut test of line 160
IsCut(silence, cursor, t) == 5 * (silence.end - cursor) >= 4 * t

\* silence sequences the detector reports for a file of length d: ordered,
\* non-overlapping, start <= end, inside the file
Silences(d) == {s \in [start : 0..d, end : 0..d] : s.start <= s.end}

Ordered(sp) == \A k \in 1..(Len(sp) - 1) : sp[k].end <= sp[k + 1].start

SilenceSeqs(d) ==
    {sp \in UNION {[1..n -> Silences(d)] : n \in 0..MaxSilences} : Ordered(sp)}

----------------------------------------------------------------------------
(* segment_audio *)

Init ==
    /\ pc = "start"
    /\ duration \in 0..MaxDuration
    /\ target \in 1..MaxTarget
    /\ sentinel = FALSE
    /\ silence_periods = <<>>
    /\ idx = 1
    /\ segment_start = 0
    /\ segments = <<>>
    /\ num_segments = 0
    /\ num_digits = 0
    /\ segment_num = 1
    /\ written = <<>>
    /\ calls = <<>>
    /\ probes = <<>>
    /\ lines = <<>>
    /\ pos = 1
    /\ start_time = None

\* variant: the duration is probed before the detector runs
DetectAfterProbe ==
    /\ pc = "start"
    /\ \E sp \in SilenceSeqs(duration) :
          /\ silence_periods' = sp
          /\ pc' = IF sp = <<>> THEN "rest" ELSE "loop"
    /\ sentinel' = FALSE
    /\ calls' = calls \o <<"probe", "detect">>
    /\ idx' = 1
    /\ segment_start' = 0
    /\ segments' = <<>>
    /\ UNCHANGED <<duration, target, writeVars, probes, parseVars>>

\* lines 148-150 and 156-157: the detector returns a list
Detect ==
    /\ pc = "start"
    /\ \E sp \in SilenceSeqs(duration) :
          /\ silence_periods' = sp
          /\ pc' = IF sp = <<>> THEN "rest" ELSE "loop"
    /\ sentinel' = FALSE
    /\ calls' = Append(calls, "detect")
    /\ idx' = 1
    /\ segment_start' = 0
    /\ segments' = <<>>
    /\ UNCHANGED <<duration, target, writeVars, probes, parseVars>>

\* lines 86-90 and 150: the engine exits nonzero, the detector returns None
DetectFails ==
    /\ pc = "start"
    /\ sentinel' = TRUE
    /\ pc' = "whole"
    /\ calls' = Append(calls, "detect")
    /\ UNCHANGED <<duration, target, silence_periods, planVars, writeVars,
                   probes, parseVars>>

\* variant: the return of line 154 is missing, control falls into line 166
WholeFileFallsThrough ==
    /\ pc = "whole"
    /\ \E pok \in BOOLEAN, wok \in BOOLEAN :
          LET d == get_audio_duration(pok) IN
          /\ probes' = Append(probes, d)
          /\ written' = Append(written, create_segment(WholeFileName, 0, d, wok))
    /\ calls' = calls \o <<"probe", "write">>
    /\ pc' = "rest"
    /\ UNCHANGED <<duration, target, sentinel, silence_periods, planVars,
                   num_segments, num_digits, segment_num, parseVars>>

\* lines 151-154: the whole file as one output, then return
WholeFile ==
    /\ pc = "whole"
    /\ \E pok \in BOOLEAN, wok \in BOOLEAN :
          LET d == get_audio_duration(pok) IN
          /\ probes' = Append(probes, d)
          /\ written' = Append(written, create_segment(WholeFileName, 0, d, wok))
    /\ calls' = calls \o <<"probe", "write">>
    /\ pc' = "done"
    /\ UNCHANGED <<duration, target, sentinel, silence_periods, planVars,
                   num_segments, num_digits, segment_num, parseVars>>

\* lines 159-163: one iteration of the planning loop
Cut ==
    /\ pc = "loop"
    /\ LET silence == silence_periods[idx] IN
          IF IsCut(silence, segment_start, target)
          THEN /\ segments' = Append(segments, <<segment_start, silence.end>>)
               /\ segment_start' = silence.end
          ELSE UNCHANGED <<segments, segment_start>>
    /\ idx' = idx + 1
    /\ pc' = IF idx = Len(silence_periods) THEN "rest" ELSE "loop"
    /\ UNCHANGED <<duration, target, sentinel, silence_periods, writeVars,
                   calls, probes, parseVars>>

\* line 166: probe the duration and test for a remainder
Remainder ==
    /\ pc = "rest"
    /\ \E pok \in BOOLEAN :
          LET d == get_audio_duration(pok) IN
          /\ probes' = Append(probes, d)
          /\ pc' = IF segment_start < d THEN "append" ELSE "number"
    /\ calls' = Append(calls, "probe")
    /\ UNCHANGED <<duration, target, sentinel, silence_periods, planVars,
                   writeVars, parseVars>>

\* line 167: probe the duration again and append the final segment
AppendRemainder ==
    /\ pc = "append"
    /\ \E pok \in BOOLEAN :
          LET d == get_audio_duration(pok) IN
          /\ probes' = Append(probes, d)
          /\ segments' = Append(segments, <<segment_start, d>>)
    /\ calls' = Append(calls, "probe")
    /\ pc' = "number"
    /\ UNCHANGED <<duration, target, sentinel, silence_periods, idx,
                   segment_start, writeVars, parseVars>>

\* lines 170-171
Number ==
    /\ pc = "number"
    /\ num_segments' = Len(segments)
    /\ num_digits' = Len(Str(Len(segments)))
    /\ segment_num' = 1
    /\ pc' = IF segments = <<>> THEN "done" ELSE "write"
    /\ UNCHANGED <<duration, target, sentinel, silence_periods, planVars,
                   written, calls, probes, parseVars>>

\* variant: the loop stops at the first failed write
WriteAbort ==
    /\ pc = "write"
    /\ \E wok \in BOOLEAN :
          /\ written' = Append(written,
                            create_segment(SegmentFile(segment_num, num_digits),
                                           segments[segment_num][1],
                                           segments[segment_num][2], wok))
          /\ pc' = IF segment_num = Len(segments) \/ ~wok
                   THEN "done" ELSE "write"
    /\ calls' = Append(calls, "write")
    /\ segment_num' = segment_num + 1
    /\ UNCHANGED <<duration, target, sentinel, silence_periods, planVars,
                   num_segments, num_digits, probes, parseVars>>

\* lines 173-177: one iteration of the write loop
Write ==
    /\ pc = "write"
    /\ \E wok \in BOOLEAN :
          written' = Append(written,
                            create_segment(SegmentFile(segment_num, num_digits),
                                           segments[segment_num][1],
                                           segments[segment_num][2], wok))
    /\ calls' = Append(calls, "write")
    /\ segment_num' = segment_num + 1
    /\ pc' = IF segment_num = Len(segments) THEN "done" ELSE "write"
    /\ UNCHANGED <<duration, target, sentinel, silence_periods, planVars,
                   num_segments, num_digits, probes, parseVars>>

Next ==
    \/ Detect
    \/ DetectFails
    \/ WholeFile
    \/ Cut
    \/ Remainder
    \/ AppendRemainder
    \/ Number
    \/ Write

Spec == Init /\ [][Next]_vars

----------------------------------------------------------------------------
(* The write loop on its own, over plans long enough to need padding *)

\* the plan segment_audio builds for an n second file with a silence ending
\* at every whole second and target 1: n segments of one second each
InitWrite ==
    /\ pc = "number"
    /\ \E n \in 0..MaxSegments :
          /\ duration = n
          /\ silence_periods = [k \in 1..(n - 1) |-> [start |-> k, end |-> k]]
          /\ idx = IF n = 0 THEN 1 ELSE n
          /\ segment_start = IF n = 0 THEN 0 ELSE n - 1
          /\ segments = [k \in 1..n |-> <<k - 1, k>>]
          /\ probes = IF n = 0 THEN <<0>> ELSE <<n, n>>
          /\ calls = IF n = 0 THEN <<"detect", "probe">>
                     ELSE <<"detect", "probe", "probe">>
    /\ target = 1
    /\ sentinel = FALSE
    /\ num_segments = 0
    /\ num_digits = 0
    /\ segment_num = 1
    /\ written = <<>>
    /\ lines = <<>>
    /\ pos = 1
    /\ start_time = None

NextWrite ==
    \/ Number
    \/ Write

SpecWrite == InitWrite /\ [][NextWrite]_vars

----------------------------------------------------------------------------
(* find_silent_periods: the marker parser, lines 70-85 *)

\* a stderr line: a silencedetect line with silence_start:, one with
\* silence_end:, or any other line
Lines ==
    [kind : {"start", "end"}, t : 0..MaxStamp] \cup {[kind |-> "other", t |-> 0]}

LineSeqs == UNION {[1..n -> Lines] : n \in 0..MaxLines}

\* lines 65-71: the engine exited zero and its stderr is about to be scanned
InitDetect ==
    /\ pc = "parse"
    /\ lines \in LineSeqs
    /\ pos = 1
    /\ start_time = None
    /\ silence_periods = <<>>
    /\ calls = <<"detect">>
    /\ duration = 0
    /\ target = 1
    /\ sentinel = FALSE
    /\ idx = 1
    /\ segment_start = 0
    /\ segments = <<>>
    /\ num_segments = 0
    /\ num_digits = 0
    /\ segment_num = 1
    /\ written = <<>>
    /\ probes = <<>>

\* variant: silence_end is taken without the test for a pending start
ParseLineNoTest ==
    /\ pc = "parse"
    /\ pos <= Len(lines)
    /\ LET line == lines[pos] IN
          CASE line.kind = "start" ->
                  /\ start_time' = line.t
                  /\ UNCHANGED silence_periods
            [] line.kind = "end" ->
                  /\ silence_periods' = Append(silence_periods,
                                               [start |-> start_time, end |-> line.t])
                  /\ start_time' = None
            [] OTHER -> UNCHANGED <<start_time, silence_periods>>
    /\ pos' = pos + 1
    /\ UNCHANGED <<pc, lines, duration, target, sentinel, planVars, writeVars,
                   calls, probes>>

\* variant: a silence_start does not overwrite a pending start
ParseLineKeepFirst ==
    /\ pc = "parse"
    /\ pos <= Len(lines)
    /\ LET line == lines[pos] IN
          CASE line.kind = "start" ->
                  /\ start_time' = IF start_time = None THEN line.t ELSE start_time
                  /\ UNCHANGED silence_periods
            [] line.kind = "end" /\ start_time # None ->
                  /\ silence_periods' = Append(silence_periods,
                                               [start |-> start_time, end |-> line.t])
                  /\ start_time' = None
            [] OTHER -> UNCHANGED <<start_time, silence_periods>>
    /\ pos' = pos + 1
    /\ UNCHANGED <<pc, lines, duration, target, sentinel, planVars, writeVars,
                   calls, probes>>

\* lines 73-83: one iteration of the scan
ParseLine ==
    /\ pc = "parse"
    /\ pos <= Len(lines)
    /\ LET line == lines[pos] IN
          CASE line.kind = "start" ->
                  /\ start_time' = line.t
                  /\ UNCHANGED silence_periods
            [] line.kind = "end" /\ start_time # None ->
                  /\ silence_periods' = Append(silence_periods,
                                               [start |-> start_time, end |-> line.t])
                  /\ start_time' = None
            [] OTHER -> UNCHANGED <<start_time, silence_periods>>
    /\ pos' = pos + 1
    /\ UNCHANGED <<pc, lines, duration, target, sentinel, planVars, writeVars,
                   calls, probes>>

\* line 85: the scan is over, the list is returned and start_time is dropped
ReturnPeriods ==
    /\ pc = "parse"
    /\ pos > Len(lines)
    /\ pc' = "returned"
    /\ UNCHANGED <<duration, target, sentinel, silence_periods, planVars,
                   writeVars, calls, probes, parseVars>>

NextDetect ==
    \/ ParseLine
    \/ ReturnPeriods

SpecDetect == InitDetect /\ [][NextDetect]_vars

----------------------------------------------------------------------------
(* Properties of the planner and of segment_audio, checked under Spec *)

\* the planning of lines 156-167 is over
PlanBuilt == ~sentinel /\ pc \in {"number", "write", "done"}

\* the value the duration probe of line 166 returned
ProbedDuration == probes[1]

Length(seg) == seg[2] - seg[1]

\* segs covers [0, d] with shared boundaries, no gap and no overlap; the
\* empty plan covers only the empty range
Tiles(segs, d) ==
    IF segs = <<>> THEN d = 0
    ELSE /\ segs[1][1] = 0
         /\ \A k \in 1..Len(segs) : segs[k][1] <= segs[k][2]
         /\ \A k \in 1..(Len(segs) - 1) : segs[k][2] = segs[k + 1][1]
         /\ Last(segs)[2] = d

\* C1: the plan tiles [0, D] exactly: it starts at 0, each segment starts
\* where the previous one ends, and the last segment ends at D.
PlanTilesDuration == PlanBuilt => Tiles(segments, ProbedDuration)

\* C2: every segment of the plan other than the last is at least 0.8 times
\* the target length long.
NonFinalSegmentsLongEnough ==
    \A k \in 1..(Len(segments) - 1) : 5 * Length(segments[k]) >= 4 * target

LongPlanBuilt ==
    /\ PlanBuilt
    /\ Len(segments) >= 3
    /\ target = 2
    /\ Len(silence_periods) >= Len(segments)

\* no silence ends at 0.8 times the target length or later, measured from 0,
\* the only cursor position there is as long as no cut is accepted
NoSilenceReaches == \A k \in 1..Len(silence_periods) :
                        5 * silence_periods[k].end < 4 * target

ZeroDurationPlanDegenerate ==
    (PlanBuilt /\ ProbedDuration = 0) =>
        \A k \in 1..Len(segments) : Length(segments[k]) <= 0

Rank(op) == CASE op = "detect" -> 1 [] op = "probe" -> 2 [] op = "write" -> 3

\* C5 as stated: silence detection never runs before a duration probe has.
ProbeBeforeDetect ==
    \A k \in 1..Len(calls) :
        calls[k] = "detect" => \E j \in 1..(k - 1) : calls[j] = "probe"

\* C5 as amended: silence detection runs first and once, then the cut loop,
\* then the duration probes, then the segment writes one at a time; nothing
\* is probed before the cut loop is over and nothing is written before the
\* plan is complete.
DetectPlanProbeWrite ==
    /\ calls # <<>> => calls[1] = "detect"
    /\ \A j, k \in 1..Len(calls) : j < k => Rank(calls[j]) < Rank(calls[k])
                                           \/ (calls[j] = calls[k] /\ calls[j] # "detect")
    /\ (\E k \in 1..Len(calls) : calls[k] = "probe")
          => pc \in {"append", "number", "write", "done"}
    /\ (\E k \in 1..Len(calls) : calls[k] = "write") => pc \in {"write", "done"}
    /\ Len(written) = Cardinality({k \in 1..Len(calls) : calls[k] = "write"})
    /\ Len(probes) = Cardinality({k \in 1..Len(calls) : calls[k] = "probe"})

AllStagesRan ==
    /\ pc = "done"
    /\ ~sentinel
    /\ Len(probes) = 2
    /\ Len(segments) >= 2
    /\ Len(written) = Len(segments)
    /\ \E k \in 1..Len(silence_periods) :
          ~IsCut(silence_periods[k], 0, target)

\* C6: the writer is invoked exactly once per segment of the plan, in plan
\* order, whichever writes fail; a failed write is recorded as a False
\* result and the loop goes on.
EverySegmentWrittenOnce ==
    (~sentinel /\ pc \in {"write", "done"}) =>
        /\ Len(written) = segment_num - 1
        /\ pc = "done" => Len(written) = Len(segments)
        /\ \A k \in 1..Len(written) :
              /\ k <= Len(segments)
              /\ written[k].start = segments[k][1]
              /\ written[k].end = segments[k][2]
              /\ written[k].ok \in BOOLEAN

WritesGoOnAfterFailure ==
    /\ pc = "done"
    /\ ~sentinel
    /\ Len(segments) >= 3
    /\ Len(written) = Len(segments)
    /\ ~written[1].ok
    /\ written[2].ok
    /\ ~written[3].ok

\* C7: when the detector returns None no plan is built and the writer is
\* invoked exactly once, for the range from 0 to the probed duration, under
\* the fallback name; no numbered file is written.
SentinelWritesWholeFileOnce ==
    sentinel =>
        /\ pc \in {"whole", "done"}
        /\ segments = <<>> /\ idx = 1 /\ segment_start = 0
        /\ num_segments = 0 /\ segment_num = 1
        /\ pc = "done" =>
              /\ calls = <<"detect", "probe", "write">>
              /\ Len(probes) = 1
              /\ Len(written) = 1
              /\ written[1].start = 0
              /\ written[1].end = probes[1]
              /\ written[1].file.stem = <<>>

WholeFileWritten ==
    /\ sentinel
    /\ pc = "done"
    /\ Len(written) = 1
    /\ written[1].end = duration
    /\ duration > 0

----------------------------------------------------------------------------
(* Output names, checked under SpecWrite *)

\* the number of decimal digits of n >= 0
DigitCount(n) == CHOOSE w \in 1..(n + 1) :
                    /\ n < 10 ^ w
                    /\ (w > 1 => n >= 10 ^ (w - 1))

\* the number a digit sequence denotes
RECURSIVE Value(_)
Value(ds) == IF ds = <<>> THEN 0
             ELSE 10 * Value(SubSeq(ds, 1, Len(ds) - 1)) + Last(ds)

\* string order on digit sequences of equal length
LexLess(a, b) ==
    \E k \in 1..Len(a) : /\ a[k] < b[k]
                         /\ \A j \in 1..(k - 1) : a[j] = b[j]

\* C8: the k-th write goes to the decimal index k, left-padded with zeros
\* to the number of digits of N, with extension .mp3; the names have one
\* length, are pairwise distinct and sort in plan order.
NamesPaddedToDigitsOfCount ==
    (pc \in {"write", "done"} /\ ~sentinel) =>
        /\ \A k \in 1..Len(written) :
              LET f == written[k].file IN
              /\ f.ext = ".mp3"
              /\ f.dir = "output_subdir"
              /\ \A j \in 1..Len(f.stem) : f.stem[j] \in 0..9
              /\ Value(f.stem) = k
              /\ Len(f.stem) = DigitCount(Len(segments))
        /\ \A j, k \in 1..Len(written) :
              j < k => /\ written[j].file # written[k].file
                       /\ LexLess(written[j].file.stem, written[k].file.stem)

TenNamesWritten ==
    /\ pc = "done"
    /\ Len(segments) = 10
    /\ Len(written) = 10
    /\ written[1].file.stem = <<0, 1>>
    /\ written[9].file.stem = <<0, 9>>
    /\ written[10].file.stem = <<1, 0>>

----------------------------------------------------------------------------
(* The marker parser, checked under SpecDetect *)

IsMarker(k) == lines[k].kind # "other"

\* the last marker line before line k, 0 when there is none
LastMarkerBefore(k) ==
    LET ms == {j \in 1..(k - 1) : IsMarker(j)} IN
    IF ms = {} THEN 0 ELSE CHOOSE j \in ms : \A m \in ms : m <= j

\* a start is pending when line k arrives: the last marker before it is a
\* silence_start
PendingAt(k) ==
    LastMarkerBefore(k) > 0 /\ lines[LastMarkerBefore(k)].kind = "start"

\* the silence_end markers among the first n lines that arrive while a
\* start is pending
MatchedEnds(n) == {k \in 1..n : lines[k].kind = "end" /\ PendingAt(k)}

NthMatchedEnd(n) ==
    CHOOSE k \in MatchedEnds(Len(lines)) :
        Cardinality({j \in MatchedEnds(Len(lines)) : j <= k}) = n

\* C9: unmatched markers produce no Interval: the list holds one Interval
\* per silence_end that arrived while a start was pending, an end with no
\* pending start leaves no start pending, and the returned list ignores a
\* start still pending at the end of the stream.
OneIntervalPerMatchedEnd ==
    /\ Len(silence_periods) = Cardinality(MatchedEnds(pos - 1))
    /\ (pos > 1 /\ lines[pos - 1].kind = "end") => start_time = None
    /\ (pos > 1 /\ lines[pos - 1].kind = "other" /\ ~PendingAt(pos - 1))
          => start_time = None
    /\ pc = "returned" => pos = Len(lines) + 1

UnmatchedMarkersDropped ==
    /\ pc = "returned"
    /\ Len(lines) = 4
    /\ lines[1].kind = "end"
    /\ lines[2].kind = "start"
    /\ lines[3].kind = "end"
    /\ lines[4].kind = "start"
    /\ Len(silence_periods) = 1

\* C10: the Interval emitted at a silence_end pairs it with the most recent
\* silence_start before it; earlier starts are in no Interval, a start is
\* in at most one, and no start is pending right after an emission.
IntervalUsesLatestStart ==
    /\ Len(silence_periods) <= Cardinality(MatchedEnds(Len(lines)))
    /\ \A n \in 1..Len(silence_periods) :
          LET e == NthMatchedEnd(n)
              b == LastMarkerBefore(e)
          IN /\ e < pos
             /\ silence_periods[n] = [start |-> lines[b].t, end |-> lines[e].t]
             /\ \A m \in 1..(n - 1) : LastMarkerBefore(NthMatchedEnd(m)) < b
    /\ start_time # None =>
          /\ PendingAt(pos)
          /\ start_time = lines[LastMarkerBefore(pos)].t
    /\ (pos > 1 /\ (pos - 1) \in MatchedEnds(pos - 1)) => start_time = None

LatestOfTwoStartsUsed ==
    /\ pc = "returned"
    /\ Len(lines) >= 3
    /\ lines[1] = [kind |-> "start", t |-> 0]
    /\ lines[2] = [kind |-> "start", t |-> 1]
    /\ lines[3] = [kind |-> "end", t |-> 2]
    /\ silence_periods[1] = [start |-> 1, end |-> 2]

====
